---- MODULE Spec2Model ----
(***************************************************************************)
(* Boolean formula trees (AND/OR over signed integer literals) of          *)
(* src/src/main/formulas.py and their translation to CNF, and the weighted *)
(* clause assembly of src/da4py/main/conformanceArtefacts.py.              *)
(*                                                                         *)
(* A Formula Node is the record                                            *)
(*   [type, positiveVariables, negativeVariables, qbf_formulas]            *)
(* with the field names of class Operator; lists are sequences.            *)
(***************************************************************************)
EXTENDS Integers, Sequences, FiniteSets, TLC

\* ------------------------------------------------------------------ bounds
\* named variables issued by the registry are 1..NumVars
NumVars == 2
\* size (nodes + literals) of the first formula a session builds
MaxSize == 5
\* size of a sibling formula built later in the same session
SiblingSize == 2
\* operatorToCnf calls of one session
MaxCalls == 2
\* size of the formulas built from arbitrary integers
MalSize == 3
\* size of the formula each concurrent compilation is given
ConcSize == 3
\* size of the formulas the translators hand to __createWncf, in all
WSize == 3
\* largest size_of_run, max_d and number of traces
MaxRun == 2
MaxD == 2
MaxTraces == 2

VARIABLES
  stack,     \* the nodes built and not yet given to a parent, oldest first
  orig,      \* the receiver as it was before the last operation
  NB_VARS,   \* formulas.NB_VARS, the module-global counter
  ret,       \* value returned by the last operation (a clause list or a node)
  op,        \* "build", or the last operation: "operatorToCnf", "simplify", "negation"
  seed,      \* nbVars passed to the last operatorToCnf
  usedAux,   \* auxiliary numbers introduced by earlier operatorToCnf outputs
  ncalls,    \* operatorToCnf calls made so far
  thr,       \* the concurrent compilations: thr[t] is the position of thread t
  ca,        \* the ConformanceArtefacts object
  wcnf,      \* the WCNF built by __createWncf
  nets       \* the Petri nets: nets[n] counts the wait transitions of net n

vars ==
  <<stack, orig, NB_VARS, ret, op, seed, usedAux, ncalls, thr, ca, wcnf, nets>>

\* ------------------------------------------------------------ constructors
Operator(type, positiveVariables, negativeVariables, qbf_formulas) ==
  [type |-> type, positiveVariables |-> positiveVariables,
   negativeVariables |-> negativeVariables, qbf_formulas |-> qbf_formulas]

And(positiveVariables, negativeVariables, qbf_formulas) ==
  Operator("AND", positiveVariables, negativeVariables, qbf_formulas)

Or(positiveVariables, negativeVariables, qbf_formulas) ==
  Operator("OR", positiveVariables, negativeVariables, qbf_formulas)

\* ------------------------------------------------------------ list helpers
RECURSIVE Concat(_)
Concat(ss) == IF ss = <<>> THEN <<>> ELSE Head(ss) \o Concat(Tail(ss))

Range(s) == {s[i] : i \in 1..Len(s)}

Abs(x) == IF x < 0 THEN -x ELSE x

\* the literals [v * -1 for v in vs]
Negated(vs) == [i \in 1..Len(vs) |-> vs[i] * (-1)]

\* ------------------------------------------------------- formula semantics
\* truth value of node f when exactly the variables of A are true
RECURSIVE Eval(_, _)
Eval(f, A) ==
  IF f.type = "AND"
  THEN /\ \A i \in 1..Len(f.positiveVariables) : f.positiveVariables[i] \in A
       /\ \A i \in 1..Len(f.negativeVariables) : f.negativeVariables[i] \notin A
       /\ \A i \in 1..Len(f.qbf_formulas) : Eval(f.qbf_formulas[i], A)
  ELSE \/ \E i \in 1..Len(f.positiveVariables) : f.positiveVariables[i] \in A
       \/ \E i \in 1..Len(f.negativeVariables) : f.negativeVariables[i] \notin A
       \/ \E i \in 1..Len(f.qbf_formulas) : Eval(f.qbf_formulas[i], A)

\* a clause list holds under A
ClauseHolds(c, A) ==
  \E i \in 1..Len(c) : IF c[i] > 0 THEN c[i] \in A ELSE (-c[i]) \notin A

CnfHolds(cnf, A) == \A i \in 1..Len(cnf) : ClauseHolds(cnf[i], A)

\* magnitudes of the literals of a node and of a clause list
RECURSIVE Magnitudes(_)
Magnitudes(f) ==
  {Abs(v) : v \in Range(f.positiveVariables) \cup Range(f.negativeVariables)}
  \cup UNION {Magnitudes(f.qbf_formulas[i]) : i \in 1..Len(f.qbf_formulas)}

\* the literal values a node holds, as written in its lists
RECURSIVE LiteralValues(_)
LiteralValues(f) ==
  Range(f.positiveVariables) \cup Range(f.negativeVariables)
  \cup UNION {LiteralValues(f.qbf_formulas[i]) : i \in 1..Len(f.qbf_formulas)}

CnfMagnitudes(cnf) == UNION {{Abs(l) : l \in Range(cnf[i])} : i \in 1..Len(cnf)}

RECURSIVE NodeCount(_)
RECURSIVE SumSeq(_)
SumSeq(s) == IF s = <<>> THEN 0 ELSE Head(s) + SumSeq(Tail(s))
NodeCount(f) ==
  1 + SumSeq([i \in 1..Len(f.qbf_formulas) |-> NodeCount(f.qbf_formulas[i])])

\* ---------------------------------------------------------- input sizes
\* nodes plus literals of a node
RECURSIVE SizeOf(_)
SizeOf(f) ==
  1 + Len(f.positiveVariables) + Len(f.negativeVariables)
    + SumSeq([i \in 1..Len(f.qbf_formulas) |-> SizeOf(f.qbf_formulas[i])])

\* the pairs of literal lists holding m literals of lits in all
LitLists(m, lits) ==
  UNION {[1..a -> lits] \X [1..(m - a) -> lits] : a \in 0..m}

\* nbVars a caller passes: the registry's count, or one more
Seeds == NumVars..(NumVars + 1)

\* ------------------------------------------------------------ CNF compiler
\* Each operator returns [cnf, nb, node]: the clause list, NB_VARS afterwards
\* and the receiver as the in-place rewriting leaves it.
RECURSIVE aux_operatorToCnf(_, _)
RECURSIVE CompileList(_, _)

\* the loop "for formula in self.qbf_formulas: left += formula.aux_operatorToCnf()"
CompileList(kids, nb) ==
  IF kids = <<>> THEN [cnf |-> <<>>, nb |-> nb, nodes |-> <<>>]
  ELSE LET h == aux_operatorToCnf(Head(kids), nb)
           t == CompileList(Tail(kids), h.nb)
       IN [cnf |-> h.cnf \o t.cnf, nb |-> t.nb, nodes |-> <<h.node>> \o t.nodes]

AndAux(self, nb) ==
  LET dnfPositiveVariables ==
        [i \in 1..Len(self.positiveVariables) |-> <<self.positiveVariables[i]>>]
      dnfNegativeVariables ==
        [i \in 1..Len(self.negativeVariables) |-> <<self.negativeVariables[i] * (-1)>>]
      left == CompileList(self.qbf_formulas, nb)
  IN [cnf |-> dnfPositiveVariables \o dnfNegativeVariables \o left.cnf,
      nb |-> left.nb,
      node |-> [self EXCEPT !.qbf_formulas = left.nodes]]

\* (mutation: the OR child takes var as a positive literal)
DistributeInline_Positive(q, var) ==
  IF q.type = "OR"
  THEN [q EXCEPT !.positiveVariables = q.positiveVariables \o <<var>>]
  ELSE [q EXCEPT
          !.qbf_formulas =
             [i \in 1..Len(q.positiveVariables) |->
                 Or(<<q.positiveVariables[i]>>, <<var>>, <<>>)]
             \o [i \in 1..Len(q.negativeVariables) |->
                 Or(<<q.negativeVariables[i]>>, <<var>>, <<>>)]
             \o [i \in 1..Len(q.qbf_formulas) |->
                 Or(<<>>, <<var>>, <<q.qbf_formulas[i]>>)],
          !.negativeVariables = <<>>,
          !.positiveVariables = <<>>]

\* lines 202-215: child q of an OR node takes the implication from var
DistributeInline(q, var) ==
  IF q.type = "OR"
  THEN [q EXCEPT !.negativeVariables = q.negativeVariables \o <<var>>]
  ELSE [q EXCEPT
          !.qbf_formulas =
             [i \in 1..Len(q.positiveVariables) |->
                 Or(<<q.positiveVariables[i]>>, <<var>>, <<>>)]
             \o [i \in 1..Len(q.negativeVariables) |->
                 Or(<<>>, <<q.negativeVariables[i], var>>, <<>>)]
             \o [i \in 1..Len(q.qbf_formulas) |->
                 Or(<<>>, <<var>>, <<q.qbf_formulas[i]>>)],
          !.negativeVariables = <<>>,
          !.positiveVariables = <<>>]

\* (mutation: no node is unwrapped)
IsWrapper_Never(self) == FALSE

\* the condition of line 190-191
IsWrapper(self) ==
  /\ Len(self.qbf_formulas) = 1
  /\ self.qbf_formulas[1].type = "OR"
  /\ Len(self.qbf_formulas[1].positiveVariables) = 0
  /\ Len(self.qbf_formulas[1].negativeVariables) = 0

\* (mutation: the counter is not advanced, line 216 dropped)
OrGeneral_NoAdvance(self, nb) ==
  LET k == Len(self.qbf_formulas)
      newVariables == [i \in 1..k |-> nb + i - 1]
      dnf == self.positiveVariables \o newVariables \o Negated(self.negativeVariables)
      rewritten == [i \in 1..k |-> DistributeInline(self.qbf_formulas[i], nb + i - 1)]
  IN IF k = 0
     THEN [cnf |-> <<dnf>>, nb |-> nb, node |-> self]
     ELSE LET r == AndAux(And(<<>>, <<>>, rewritten), nb)
          IN [cnf |-> Append(r.cnf, dnf), nb |-> r.nb,
              node |-> [self EXCEPT !.qbf_formulas = r.node.qbf_formulas]]

\* (mutation: the defining clause is put first)
OrGeneral_DnfFirst(self, nb) ==
  LET k == Len(self.qbf_formulas)
      newVariables == [i \in 1..k |-> nb + i - 1]
      dnf == self.positiveVariables \o newVariables \o Negated(self.negativeVariables)
      rewritten == [i \in 1..k |-> DistributeInline(self.qbf_formulas[i], nb + i - 1)]
      nb1 == nb + k
  IN IF k = 0
     THEN [cnf |-> <<dnf>>, nb |-> nb1, node |-> self]
     ELSE LET r == AndAux(And(<<>>, <<>>, rewritten), nb1)
          IN [cnf |-> <<dnf>> \o r.cnf, nb |-> r.nb,
              node |-> [self EXCEPT !.qbf_formulas = r.node.qbf_formulas]]

OrGeneral(self, nb) ==
  LET k == Len(self.qbf_formulas)
      newVariables == [i \in 1..k |-> nb + i - 1]
      dnf == self.positiveVariables \o newVariables \o Negated(self.negativeVariables)
      rewritten == [i \in 1..k |-> DistributeInline(self.qbf_formulas[i], nb + i - 1)]
      nb1 == nb + k
  IN IF k = 0
     THEN [cnf |-> <<dnf>>, nb |-> nb1, node |-> self]
     ELSE LET r == AndAux(And(<<>>, <<>>, rewritten), nb1)
          IN [cnf |-> Append(r.cnf, dnf), nb |-> r.nb,
              node |-> [self EXCEPT !.qbf_formulas = r.node.qbf_formulas]]

OrUnwrap(self, nb) ==
  LET r == aux_operatorToCnf(
             Or(self.positiveVariables, self.negativeVariables,
                self.qbf_formulas[1].qbf_formulas), nb)
  IN [cnf |-> r.cnf, nb |-> r.nb,
      node |-> [self EXCEPT !.qbf_formulas =
                  <<[self.qbf_formulas[1] EXCEPT
                       !.qbf_formulas = r.node.qbf_formulas]>>]]

OrAux(self, nb) ==
  IF IsWrapper(self) THEN OrUnwrap(self, nb) ELSE OrGeneral(self, nb)

aux_operatorToCnf(self, nb) ==
  IF self.type = "OR" THEN OrAux(self, nb) ELSE AndAux(self, nb)

\* Operator.operatorToCnf: NB_VARS = nbVars, then the recursive compilation
operatorToCnf(self, nbVars) == aux_operatorToCnf(self, nbVars)

\* And.distributeImplication / Or.distributeImplication: the receiver afterwards
distributeImplication(self, var) ==
  IF self.type = "AND"
  THEN LET temp ==
             [i \in 1..Len(self.positiveVariables) |->
                 Or(<<self.positiveVariables[i]>>, <<var>>, <<>>)]
             \o [i \in 1..Len(self.negativeVariables) |->
                 Or(<<>>, <<self.negativeVariables[i], var>>, <<>>)]
             \o [i \in 1..Len(self.qbf_formulas) |->
                 Or(<<>>, <<var>>, <<self.qbf_formulas[i]>>)]
       IN [self EXCEPT !.qbf_formulas = temp,
                       !.positiveVariables = <<>>,
                       !.negativeVariables = <<>>]
  ELSE [self EXCEPT !.negativeVariables = Append(self.negativeVariables, var)]

\* ------------------------------------------------- negation and simplify
RECURSIVE negation(_)
\* (mutation: the literal lists are not exchanged)
negation_NoSwap(self) ==
  LET newQbflist ==
        [i \in 1..Len(self.qbf_formulas) |-> negation(self.qbf_formulas[i])]
  IN IF self.type = "AND"
     THEN Or(self.positiveVariables, self.negativeVariables, newQbflist)
     ELSE And(self.positiveVariables, self.negativeVariables, newQbflist)

negation(self) ==
  LET newQbflist ==
        [i \in 1..Len(self.qbf_formulas) |-> negation(self.qbf_formulas[i])]
  IN IF self.type = "AND"
     THEN Or(self.negativeVariables, self.positiveVariables, newQbflist)
     ELSE And(self.negativeVariables, self.positiveVariables, newQbflist)

\* The node simplify returns. The receiver's lists are extended in place
\* (lines 77-78); on a tree no returned node reads a list after another node
\* extended it, so the returned node is a function of the receiver's value.
\* line 76: child qbf is merged into its parent
SameType_Dropped(self, qbf) == TRUE
SameType(self, qbf) == qbf.type = self.type

RECURSIVE simplify(_)
simplify(self) ==
  IF Len(self.qbf_formulas) = 0 THEN self
  ELSE IF /\ Len(self.qbf_formulas) = 1
          /\ Len(self.positiveVariables) = 0
          /\ Len(self.negativeVariables) = 0
  THEN simplify(self.qbf_formulas[1])
  ELSE
    LET n == Len(self.qbf_formulas)
        same(i) == SameType(self, self.qbf_formulas[i])
        negativeVariables ==
          self.negativeVariables \o
          Concat([i \in 1..n |-> IF same(i)
                                 THEN self.qbf_formulas[i].negativeVariables
                                 ELSE <<>>])
        positiveVariables ==
          self.positiveVariables \o
          Concat([i \in 1..n |-> IF same(i)
                                 THEN self.qbf_formulas[i].positiveVariables
                                 ELSE <<>>])
        newQbflist ==
          Concat([i \in 1..n |-> IF same(i)
                                 THEN self.qbf_formulas[i].qbf_formulas
                                 ELSE <<self.qbf_formulas[i]>>])
        simplifiedQbflist ==
          [j \in 1..Len(newQbflist) |-> simplify(newQbflist[j])]
    IN Operator(self.type, positiveVariables, negativeVariables, simplifiedQbflist)

\* --------------------------------------------------------------- session
None == <<"None">>

Init ==
  /\ stack = <<>>
  /\ orig = None
  /\ NB_VARS = 0
  /\ ret = None
  /\ op = "build"
  /\ seed = 0
  /\ usedAux = {}
  /\ ncalls = 0
  /\ thr = <<>>
  /\ ca = None
  /\ wcnf = None
  /\ nets = <<>>

\* auxiliary magnitudes a compilation seeded at n that ended at nb introduced
AuxOf(n, nb) == n..(nb - 1)

StackSize(st) == SumSeq([i \in 1..Len(st) |-> SizeOf(st[i])])

\* And(...) / Or(...): a node is built over literals lits from the last k
\* nodes built, within the size limit
Construct(lits, limit) ==
  /\ op = "build"
  /\ \E t \in {"AND", "OR"}, k \in 0..Len(stack),
        m \in 0..(limit - 1 - StackSize(stack)) :
       \E pn \in LitLists(m, lits) :
          stack' = SubSeq(stack, 1, Len(stack) - k)
                   \o <<Operator(t, pn[1], pn[2],
                                 SubSeq(stack, Len(stack) - k + 1, Len(stack)))>>
  /\ UNCHANGED <<orig, NB_VARS, ret, op, seed, usedAux, ncalls, thr, ca, wcnf, nets>>

Build ==
  Construct(1..NumVars, IF ncalls = 0 THEN MaxSize ELSE SiblingSize)

\* cnf = f.operatorToCnf(n)
OperatorToCnf ==
  /\ op = "build"
  /\ Len(stack) = 1
  /\ ncalls < MaxCalls
  /\ \E n \in Seeds :
       LET r == operatorToCnf(stack[1], n)
       IN /\ n >= seed   \* the registry's count does not go down in a session
          /\ NB_VARS' = r.nb
          /\ ret' = r.cnf
          /\ stack' = <<r.node>>
          /\ seed' = n
  /\ orig' = stack[1]
  /\ op' = "operatorToCnf"
  /\ usedAux' = usedAux \cup AuxOf(seed, NB_VARS)
  /\ ncalls' = ncalls + 1
  /\ UNCHANGED <<thr, ca, wcnf, nets>>

\* f = f.simplify()
Simplify ==
  /\ op = "build"
  /\ Len(stack) = 1
  /\ ncalls = 0
  /\ ret' = simplify(stack[1])
  /\ stack' = <<ret'>>
  /\ orig' = stack[1]
  /\ op' = "simplify"
  /\ UNCHANGED <<NB_VARS, seed, usedAux, ncalls, thr, ca, wcnf, nets>>

\* f = f.negation()
Negation ==
  /\ op = "build"
  /\ Len(stack) = 1
  /\ ncalls = 0
  /\ ret' = negation(stack[1])
  /\ stack' = <<ret'>>
  /\ orig' = stack[1]
  /\ op' = "negation"
  /\ UNCHANGED <<NB_VARS, seed, usedAux, ncalls, thr, ca, wcnf, nets>>

\* the compiled formula is discarded and the session builds a sibling
NextFormula ==
  /\ op = "operatorToCnf"
  /\ ncalls < MaxCalls
  /\ stack' = <<>>
  /\ orig' = None
  /\ ret' = None
  /\ op' = "build"
  /\ UNCHANGED <<NB_VARS, seed, usedAux, ncalls, thr, ca, wcnf, nets>>

Next == Build \/ OperatorToCnf \/ Simplify \/ Negation \/ NextFormula

Spec == Init /\ [][Next]_vars

\* ------------------------------------------- sessions with any integer literal
\* The constructors take any list of int: the node is built whatever the
\* literals are.
BuildAnyLiteral == Construct((-1)..NumVars, MalSize)

NextMal == BuildAnyLiteral \/ OperatorToCnf

SpecMal == Init /\ [][NextMal]_vars

\* ------------------------------------------------ concurrent compilations
\* Two threads of one interpreter each run operatorToCnf on a formula of
\* their own. NB_VARS is the one module global (line 27); a thread can be
\* preempted between any two reads or writes of it. thr[t].work is the
\* thread's call stack, innermost first, of items
\*   "call"  f.aux_operatorToCnf() is about to run
\*   "dist"  the loop of lines 200-215 is at child i
\*   "load"  line 216 is about to read NB_VARS
\*   "store" line 216 has read i and is about to write
\*   "emit"  line 221 appends dnf once the children have returned
Threads == {1, 2}

Item(k, f, i, dnf) == [k |-> k, f |-> f, i |-> i, dnf |-> dnf]

IdleThread ==
  [pc |-> "idle", f |-> None, n |-> 0, work |-> <<>>, out |-> <<>>,
   last |-> 0, alloc |-> <<>>]

InitConc ==
  /\ stack = <<>>
  /\ orig = None
  /\ NB_VARS = 0
  /\ ret = None
  /\ op = "build"
  /\ seed = 0
  /\ usedAux = {}
  /\ ncalls = 0
  /\ thr = [t \in Threads |-> IdleThread]
  /\ ca = None
  /\ wcnf = None
  /\ nets = <<>>

seqVars == <<stack, orig, ret, op, seed, usedAux, ncalls, ca, wcnf, nets>>

\* a formula is built for a thread that has none yet
BuildConc ==
  /\ \E t \in Threads : thr[t].pc = "idle"
  /\ Construct(1..1, ConcSize)

\* the formula built is handed to thread t
Submit(t) ==
  /\ thr[t].pc = "idle"
  /\ \A u \in Threads : u < t => thr[u].pc # "idle"
  /\ Len(stack) = 1
  /\ thr' = [thr EXCEPT ![t] = [@ EXCEPT !.pc = "ready", !.f = stack[1]]]
  /\ stack' = <<>>
  /\ UNCHANGED <<orig, NB_VARS, ret, op, seed, usedAux, ncalls, ca, wcnf, nets>>

\* lines 110-112: NB_VARS = nbVars, then self.aux_operatorToCnf()
Call(t) ==
  /\ \A u \in Threads : thr[u].pc # "idle"
  /\ thr[t].pc = "ready"
  /\ \E n \in Seeds :
       /\ NB_VARS' = n
       /\ thr' = [thr EXCEPT ![t] =
                    [@ EXCEPT !.pc = "running", !.n = n, !.last = n,
                              !.work = <<Item("call", thr[t].f, 0, <<>>)>>]]
  /\ UNCHANGED seqVars

Top(t) == Head(thr[t].work)

At(t, k) ==
  /\ thr[t].pc = "running"
  /\ thr[t].work # <<>>
  /\ Top(t).k = k

Calls(kids) == [i \in 1..Len(kids) |-> Item("call", kids[i], 0, <<>>)]

\* And.aux_operatorToCnf up to the first child's call
StepAnd(t) ==
  /\ At(t, "call")
  /\ Top(t).f.type # "OR"
  /\ LET self == Top(t).f
     IN thr' = [thr EXCEPT ![t] =
          [@ EXCEPT
             !.out = @ \o [i \in 1..Len(self.positiveVariables) |->
                              <<self.positiveVariables[i]>>]
                       \o [i \in 1..Len(self.negativeVariables) |->
                              <<self.negativeVariables[i] * (-1)>>],
             !.work = Calls(self.qbf_formulas) \o Tail(@)]]
  /\ UNCHANGED <<NB_VARS>>
  /\ UNCHANGED seqVars

\* lines 190-193
StepUnwrap(t) ==
  /\ At(t, "call")
  /\ Top(t).f.type = "OR"
  /\ IsWrapper(Top(t).f)
  /\ LET self == Top(t).f
     IN thr' = [thr EXCEPT ![t] =
          [@ EXCEPT !.work =
             <<Item("call",
                    Or(self.positiveVariables, self.negativeVariables,
                       self.qbf_formulas[1].qbf_formulas), 0, <<>>)>>
             \o Tail(@)]]
  /\ UNCHANGED <<NB_VARS>>
  /\ UNCHANGED seqVars

\* lines 196-199: newVariables and dnf are built from NB_VARS as it is now
StepAlloc(t) ==
  /\ At(t, "call")
  /\ Top(t).f.type = "OR"
  /\ ~IsWrapper(Top(t).f)
  /\ LET self == Top(t).f
         k == Len(self.qbf_formulas)
         newVariables == [i \in 1..k |-> NB_VARS + i - 1]
         dnf == self.positiveVariables \o newVariables
                \o Negated(self.negativeVariables)
     IN thr' = [thr EXCEPT ![t] =
          [@ EXCEPT
             !.alloc = @ \o newVariables,
             !.work = <<Item(IF k = 0 THEN "load" ELSE "dist", self, 1, dnf)>>
                      \o Tail(@)]]
  /\ UNCHANGED <<NB_VARS>>
  /\ UNCHANGED seqVars

\* one iteration of the loop of lines 200-215: NB_VARS + i is read now
StepDistribute(t) ==
  /\ At(t, "dist")
  /\ LET it == Top(t)
         k == Len(it.f.qbf_formulas)
         f1 == [it.f EXCEPT !.qbf_formulas[it.i] =
                   DistributeInline(@, NB_VARS + it.i - 1)]
     IN thr' = [thr EXCEPT ![t] =
          [@ EXCEPT !.work =
             <<Item(IF it.i = k THEN "load" ELSE "dist", f1, it.i + 1, it.dnf)>>
             \o Tail(@)]]
  /\ UNCHANGED <<NB_VARS>>
  /\ UNCHANGED seqVars

\* line 216, the read of NB_VARS += len(self.qbf_formulas)
StepLoad(t) ==
  /\ At(t, "load")
  /\ thr' = [thr EXCEPT ![t] =
       [@ EXCEPT !.work =
          <<Item("store", Top(t).f, NB_VARS, Top(t).dnf)>> \o Tail(@)]]
  /\ UNCHANGED <<NB_VARS>>
  /\ UNCHANGED seqVars

\* line 216, the write; then lines 217-220 up to the first child's call
StepStore(t) ==
  /\ At(t, "store")
  /\ LET it == Top(t)
         k == Len(it.f.qbf_formulas)
     IN /\ NB_VARS' = it.i + k
        /\ thr' = [thr EXCEPT ![t] =
             [@ EXCEPT
                !.last = it.i + k,
                !.out = IF k = 0 THEN Append(@, it.dnf) ELSE @,
                !.work = IF k = 0 THEN Tail(@)
                         ELSE Calls(it.f.qbf_formulas)
                              \o <<Item("emit", None, 0, it.dnf)>> \o Tail(@)]]
  /\ UNCHANGED seqVars

\* line 221: clauses.append(dnf)
StepEmit(t) ==
  /\ At(t, "emit")
  /\ thr' = [thr EXCEPT ![t] =
       [@ EXCEPT !.out = Append(@, Top(t).dnf), !.work = Tail(@)]]
  /\ UNCHANGED <<NB_VARS>>
  /\ UNCHANGED seqVars

\* operatorToCnf returns its clause list
Return(t) ==
  /\ thr[t].pc = "running"
  /\ thr[t].work = <<>>
  /\ thr' = [thr EXCEPT ![t] = [@ EXCEPT !.pc = "done"]]
  /\ UNCHANGED <<NB_VARS>>
  /\ UNCHANGED seqVars

NextConc ==
  \/ BuildConc
  \/ \E t \in Threads : Submit(t)
  \/ \E t \in Threads : Call(t)
  \/ \E t \in Threads : StepAnd(t)
  \/ \E t \in Threads : StepUnwrap(t)
  \/ \E t \in Threads : StepAlloc(t)
  \/ \E t \in Threads : StepDistribute(t)
  \/ \E t \in Threads : StepLoad(t)
  \/ \E t \in Threads : StepStore(t)
  \/ \E t \in Threads : StepEmit(t)
  \/ \E t \in Threads : Return(t)

SpecConc == InitConc /\ [][NextConc]_vars

\* ------------------------------------------------- weighted clause assembly
WEIGHT_ON_CLAUSES_TO_REDUCE == -10

\* The registry (variablesGenerator, not among the source files): the
\* variables of the model and the log are 1..NumVars, the djiid block follows,
\* numbered row by row over indices from 0; iterator is the next free number.
DBase == NumVars + 1

DBlock(c) ==
  IF c.distance_type = "edit"
  THEN c.traces * (c.size_of_run + 1) * (c.size_of_run + 1) * (c.max_d + 1)
  ELSE c.traces * (c.size_of_run + 1)

getVarNumber(c, idx) ==
  IF Len(idx) = 4
  THEN DBase + ((idx[1] * (c.size_of_run + 1) + idx[2]) * (c.size_of_run + 1)
                + idx[3]) * (c.max_d + 1) + idx[4]
  ELSE DBase + idx[1] * (c.size_of_run + 1) + idx[2]

\* ConformanceArtefacts(size_of_run, max_d, distance): the object constructed
InitW ==
  /\ stack = <<>>
  /\ orig = None
  /\ NB_VARS = 0
  /\ ret = None
  /\ op = "constructed"
  /\ seed = 0
  /\ usedAux = {}
  /\ ncalls = 0
  /\ thr = <<>>
  /\ \E s \in 1..MaxRun, d \in 1..MaxD, dt \in {"hamming", "edit"} :
        ca = [size_of_run |-> s, max_d |-> d, distance_type |-> dt,
              traces |-> 0, iterator |-> 0]
  /\ wcnf = None
  /\ nets = <<>>

\* __artefactsInitialisation: a new registry, and the log's traces are kept
ArtefactsInitialisation ==
  /\ op = "constructed"
  /\ \E nt \in 0..MaxTraces :
       LET c == [ca EXCEPT !.traces = nt]
       IN ca' = [c EXCEPT !.iterator = DBase + DBlock(c)]
  /\ op' = "build"
  /\ UNCHANGED <<stack, orig, NB_VARS, ret, seed, usedAux, ncalls, thr, wcnf, nets>>

\* the formulas of the model, the log and the distance, as the translators
\* build them over the registry's variables
BuildW == Construct(1..NumVars, WSize)

\* (mutation: the sign of anti-alignment for every artefact)
weightsOnVariables_Always(artefactForMinimization) == 1

\* line 202
weightsOnVariables(artefactForMinimization) ==
  IF artefactForMinimization # "anti" THEN -1 ELSE 1

\* lines 205-218: the unit clauses appended with a weight, in order
SoftLiterals(c, artefactForMinimization) ==
  IF c.distance_type = "edit"
  THEN [p \in 1..(c.traces * c.max_d) |->
          LET j == (p - 1) \div c.max_d
              d == ((p - 1) % c.max_d) + 1
          IN weightsOnVariables(artefactForMinimization)
             * getVarNumber(c, <<j, c.size_of_run, c.size_of_run, d>>)]
  ELSE [p \in 1..(c.traces * c.size_of_run) |->
          LET j == (p - 1) \div c.size_of_run
              i == ((p - 1) % c.size_of_run) + 1
          IN weightsOnVariables(artefactForMinimization)
             * getVarNumber(c, <<j, i>>)]

\* __createWncf(initialisationFormulas, distanceFormula, artefact): the
\* formulas are the nodes built, the first two those of the model and the log
CreateWncf ==
  /\ op = "build"
  /\ Len(stack) >= 2
  /\ \E artefact \in {"multi", "anti", "exact"} :
       LET full_formula == And(<<>>, <<>>, stack)
           r == operatorToCnf(full_formula, ca.iterator)
           lits == SoftLiterals(ca, artefact)
       IN /\ NB_VARS' = r.nb
          /\ stack' = r.node.qbf_formulas
          /\ orig' = full_formula
          /\ ret' = r.cnf
          /\ wcnf' = [hard |-> r.cnf,
                      soft |-> [p \in 1..Len(lits) |-> <<lits[p]>>],
                      wght |-> [p \in 1..Len(lits) |-> WEIGHT_ON_CLAUSES_TO_REDUCE]]
          /\ op' = artefact
  /\ seed' = ca.iterator
  /\ UNCHANGED <<usedAux, ncalls, thr, ca, nets>>

NextW == ArtefactsInitialisation \/ BuildW \/ CreateWncf

SpecW == InitW /\ [][NextW]_vars

\* ------------------------------------------------------------ properties
Compiled == op = "operatorToCnf"

\* C1: equisatisfiability. When every literal magnitude of the compiled node
\* is below the starting counter, an assignment of the named variables
\* satisfies the node iff some extension of it to the auxiliary variables
\* satisfies every returned clause.
C1_Pre == Compiled /\ Magnitudes(orig) \subseteq 1..(seed - 1)
C1_Equisatisfiable ==
  C1_Pre =>
    \A A \in SUBSET (1..(seed - 1)) :
      Eval(orig, A) <=>
        \E X \in SUBSET AuxOf(seed, NB_VARS) : CnfHolds(ret, A \cup X)

C1_Witness ==
  /\ C1_Pre
  /\ orig.type = "OR"
  /\ NB_VARS >= seed + 2
  /\ \E A \in SUBSET (1..(seed - 1)) : Eval(orig, A)
  /\ \E A \in SUBSET (1..(seed - 1)) : ~Eval(orig, A)

\* C2 as stated: no output magnitude of [1, n] is missing from the node's
\* literals, and every introduced magnitude lies in [n, n+k).
C2_ClosedInterval ==
  Compiled =>
    /\ \A m \in CnfMagnitudes(ret) : m \in 1..seed => m \in Magnitudes(orig)
    /\ CnfMagnitudes(ret) \ Magnitudes(orig) \subseteq AuxOf(seed, NB_VARS)

\* C2 (amended): no output magnitude of [1, n) is missing from the node's
\* literals, and every magnitude the output introduces lies in [n, n+k),
\* k being the advance of the counter.
C2_FreshDisjoint ==
  Compiled =>
    /\ \A m \in CnfMagnitudes(ret) : m \in 1..(seed - 1) => m \in Magnitudes(orig)
    /\ CnfMagnitudes(ret) \ Magnitudes(orig) \subseteq AuxOf(seed, NB_VARS)

C2_Witness ==
  /\ Compiled
  /\ NB_VARS >= seed + 2
  /\ CnfMagnitudes(ret) \cap (1..(seed - 1)) # {}
  /\ AuxOf(seed, NB_VARS) \subseteq CnfMagnitudes(ret)

\* C3: over the operatorToCnf calls of one session NB_VARS never decreases
\* and no auxiliary magnitude of an earlier output is introduced again.
C3_MonotonicCounter ==
  [][/\ NB_VARS' >= NB_VARS
     /\ ncalls' > ncalls =>
          AuxOf(seed', NB_VARS') \cap usedAux' = {}]_vars

\* C6: the node simplify returns has the truth value of the receiver under
\* every assignment.
C6_SimplifyPreserves ==
  op = "simplify" =>
    \A A \in SUBSET (1..NumVars) : Eval(ret, A) = Eval(orig, A)

\* a same-operator child was merged below a node that keeps literals
C6_Witness ==
  /\ op = "simplify"
  /\ ret # orig
  /\ Len(orig.qbf_formulas) >= 1
  /\ \E i \in 1..Len(orig.qbf_formulas) :
        /\ orig.qbf_formulas[i].type = orig.type
        /\ Len(orig.qbf_formulas[i].positiveVariables) >= 1
  /\ \E i \in 1..Len(orig.qbf_formulas) : orig.qbf_formulas[i].type # orig.type
  /\ \E A \in SUBSET (1..NumVars) : Eval(orig, A)
  /\ \E A \in SUBSET (1..NumVars) : ~Eval(orig, A)

\* C7: negation returns the De Morgan dual: the opposite operator, the
\* literal lists exchanged, the children negated in order; it is true exactly
\* where the receiver is false, and negating it again gives the receiver's
\* models.
C7_NegationDual ==
  op = "negation" =>
    /\ ret.type = (IF orig.type = "AND" THEN "OR" ELSE "AND")
    /\ ret.positiveVariables = orig.negativeVariables
    /\ ret.negativeVariables = orig.positiveVariables
    /\ Len(ret.qbf_formulas) = Len(orig.qbf_formulas)
    /\ \A i \in 1..Len(orig.qbf_formulas) :
          \A A \in SUBSET (1..NumVars) :
             Eval(ret.qbf_formulas[i], A) = ~Eval(orig.qbf_formulas[i], A)
    /\ \A A \in SUBSET (1..NumVars) :
          /\ Eval(ret, A) = ~Eval(orig, A)
          /\ Eval(negation(ret), A) = Eval(orig, A)

C7_Witness ==
  /\ op = "negation"
  /\ Len(orig.qbf_formulas) >= 1
  /\ Len(orig.positiveVariables) >= 1
  /\ Len(orig.negativeVariables) >= 1
  /\ orig.positiveVariables # orig.negativeVariables

\* C9: an OR node outside the unwrap case, compiled at counter c with k
\* children, returns the clauses of its children rewritten with c, ..., c+k-1
\* and compiled in order from counter c+k, then the defining clause
\* positives ++ [c..c+k-1] ++ negated negatives; with no child the output is
\* that one clause and the counter stays at c.
C9_Dnf(f, c) ==
  f.positiveVariables
  \o [i \in 1..Len(f.qbf_formulas) |-> c + i - 1]
  \o Negated(f.negativeVariables)

\* lines 190-191 read on a node of the session
C_OnlyChildBareOr(f) ==
  /\ Len(f.qbf_formulas) = 1
  /\ f.qbf_formulas[1].type = "OR"
  /\ f.qbf_formulas[1].positiveVariables = <<>>
  /\ f.qbf_formulas[1].negativeVariables = <<>>

C9_Pre == Compiled /\ orig.type = "OR" /\ ~C_OnlyChildBareOr(orig)

C9_OrGeneralCase ==
  /\ C9_Pre =>
       LET k == Len(orig.qbf_formulas)
           kids == CompileList(
                     [i \in 1..k |->
                        distributeImplication(orig.qbf_formulas[i], seed + i - 1)],
                     seed + k)
       IN /\ ret = Append(kids.cnf, C9_Dnf(orig, seed))
          /\ NB_VARS = kids.nb
          /\ NB_VARS >= seed + k
          /\ k = 0 => (ret = <<C9_Dnf(orig, seed)>> /\ NB_VARS = seed)
  /\ operatorToCnf(Or(<<3>>, <<4>>, <<>>), 5) =
       [cnf |-> <<<<3, -4>>>>, nb |-> 5, node |-> Or(<<3>>, <<4>>, <<>>)]
  /\ operatorToCnf(Or(<<>>, <<>>, <<>>), 1).cnf = <<<<>>>>
  /\ LET r == operatorToCnf(
                Or(<<>>, <<>>, <<And(<<1>>, <<>>, <<>>), And(<<2>>, <<>>, <<>>)>>), 10)
     IN r.cnf = <<<<1, -10>>, <<2, -11>>, <<10, 11>>>> /\ r.nb = 12

C9_Witness ==
  /\ C9_Pre
  /\ Len(orig.qbf_formulas) = 2
  /\ orig.qbf_formulas[1].type = "AND"
  /\ Len(ret) >= 3

C9_WitnessNoChild ==
  C9_Pre /\ Len(orig.qbf_formulas) = 0 /\ Len(ret[1]) = 2

\* C10: an OR node whose only child is an OR without literals compiles to
\* what OR(its positives, its negatives, that child's children) compiles to
\* at the same counter, with one auxiliary fewer than the general encoding
\* of the wrapper; with no grandchild the output is the clause of the node's
\* own literals and the counter is unchanged.
C10_Pre == Compiled /\ orig.type = "OR" /\ C_OnlyChildBareOr(orig)

C10_Unwrap ==
  C10_Pre =>
    LET inner == Or(orig.positiveVariables, orig.negativeVariables,
                    orig.qbf_formulas[1].qbf_formulas)
    IN /\ ret = aux_operatorToCnf(inner, seed).cnf
       /\ NB_VARS = aux_operatorToCnf(inner, seed).nb
       /\ NB_VARS = OrGeneral(orig, seed).nb - 1
       /\ Len(inner.qbf_formulas) = 0 =>
            /\ ret = <<orig.positiveVariables \o Negated(orig.negativeVariables)>>
            /\ NB_VARS = seed

C10_Witness ==
  /\ C10_Pre
  /\ Len(orig.qbf_formulas[1].qbf_formulas) >= 1
  /\ Len(orig.positiveVariables) >= 1
  /\ NB_VARS > seed

\* C5: a node holding a literal <= 0 makes operatorToCnf abort and return no
\* clause list.
C5_MalformedIsFatal ==
  (Compiled /\ \E v \in LiteralValues(orig) : v <= 0) => ret = None

\* A thread that ran alone returns what operatorToCnf returns.
AloneAgrees ==
  \A t \in Threads :
    (thr[t].pc = "done" /\ \A u \in Threads \ {t} : thr[u].pc = "ready") =>
       /\ thr[t].out = operatorToCnf(thr[t].f, thr[t].n).cnf
       /\ NB_VARS = operatorToCnf(thr[t].f, thr[t].n).nb

NoDuplicate(s) == \A i, j \in 1..Len(s) : i # j => s[i] # s[j]

\* C4: under every interleaving of two compilations, the auxiliary numbers
\* one compilation allocates are pairwise distinct and the counter it
\* allocates from is never below the value it last left.
C4_IndependentCounters ==
  \A t \in Threads :
    /\ thr[t].pc \in {"running", "done"} => NoDuplicate(thr[t].alloc)
    /\ thr[t].pc = "running" => NB_VARS >= thr[t].last

\* the duplicate-allocation half alone
C4_DistinctAuxiliaries ==
  \A t \in Threads :
    thr[t].pc \in {"running", "done"} => NoDuplicate(thr[t].alloc)

\* C8: __createWncf keeps the compiled clauses of AND(model, log, distance)
\* as the hard clauses and appends one unit soft clause per trace j and
\* distance index (d in 1..max_d on djiid[j, n, n, d] for the edit distance,
\* i in 1..n on djiid[j, i] for the Hamming distance, n = size_of_run), each
\* of weight -10, positive for anti-alignment and negative otherwise.
C8_Targets(c) ==
  IF c.distance_type = "edit"
  THEN {getVarNumber(c, <<j, c.size_of_run, c.size_of_run, d>>) :
           j \in 0..(c.traces - 1), d \in 1..c.max_d}
  ELSE {getVarNumber(c, <<j, i>>) : j \in 0..(c.traces - 1), i \in 1..c.size_of_run}

C8_Pre == op \in {"multi", "anti", "exact"}

C8_SoftClauseBias ==
  C8_Pre =>
    /\ wcnf.hard = operatorToCnf(orig, ca.iterator).cnf
    /\ orig.type = "AND" /\ orig.positiveVariables = <<>>
    /\ orig.negativeVariables = <<>>
    /\ Len(wcnf.soft) = Len(wcnf.wght)
    /\ Len(wcnf.soft) =
         ca.traces * (IF ca.distance_type = "edit" THEN ca.max_d ELSE ca.size_of_run)
    /\ Cardinality(C8_Targets(ca)) = Len(wcnf.soft)
    /\ \A p \in 1..Len(wcnf.soft) :
          /\ Len(wcnf.soft[p]) = 1
          /\ wcnf.wght[p] = -10
          /\ (wcnf.soft[p][1] > 0) <=> (op = "anti")
          /\ (wcnf.soft[p][1] < 0) <=> (op \in {"multi", "exact"})
    /\ {Abs(wcnf.soft[p][1]) : p \in 1..Len(wcnf.soft)} = C8_Targets(ca)

C8_Witness ==
  /\ C8_Pre
  /\ op = "anti"
  /\ ca.distance_type = "edit"
  /\ ca.traces = 2
  /\ ca.max_d = 2
  /\ Len(wcnf.hard) >= 2
  /\ Len(wcnf.soft) = 4

C8_WitnessHamming ==
  /\ C8_Pre
  /\ op = "exact"
  /\ ca.distance_type = "hamming"
  /\ ca.traces = 2
  /\ ca.size_of_run = 2

\* f has no child of its own operator, no node without literals holds
\* exactly one child, and the same holds below f
RECURSIVE Flattened(_)
Flattened(f) ==
  /\ \A i \in 1..Len(f.qbf_formulas) :
        /\ f.qbf_formulas[i].type # f.type
        /\ Flattened(f.qbf_formulas[i])
  /\ ~ /\ Len(f.qbf_formulas) = 1
       /\ Len(f.positiveVariables) = 0
       /\ Len(f.negativeVariables) = 0

\* C11: the node simplify returns is flattened (no node has a child of its
\* own operator, and no node with empty literal lists has exactly one
\* child), and simplifying it again returns it unchanged.
C11_SimplifyFlattens ==
  op = "simplify" => /\ Flattened(ret)
                     /\ simplify(ret) = ret

\* ------------------------------------------------- the net of an artefact
\* Petri nets a caller holds, and artefact calls made on one object
NumNets == 2
MaxArtefactCalls == 2

Nets == 1..NumNets

\* self.__net before any method assigned it (__init__ leaves it unset)
Unset == 0

ArtefactMethods == {"multiAlignment", "antiAlignment", "exactAlignment"}

\* ConformanceArtefacts(size_of_run, max_d, distance), and the caller's nets
InitNet ==
  /\ stack = <<>>
  /\ orig = None
  /\ NB_VARS = 0
  /\ ret = None
  /\ op = "constructed"
  /\ seed = 0
  /\ usedAux = {}
  /\ ncalls = 0
  /\ thr = <<>>
  /\ \E s \in 1..MaxRun, d \in 1..MaxD, dt \in {"hamming", "edit"} :
        ca = [size_of_run |-> s, max_d |-> d, distance_type |-> dt,
              traces |-> 0, net |-> Unset]
  /\ wcnf = None
  /\ nets = [n \in Nets |-> 0]

\* __add_wait_net: one more wait transition in the net self.__net names
add_wait_net(c) == [nets EXCEPT ![c.net] = @ + 1]

\* the rest of an artefact method once self is c: __artefactsInitialisation
\* reads self.__net in __add_wait_net (line 240, AttributeError when unset),
\* gives it to petri_net_to_SAT and keeps the traces; the method returns 0
ArtefactBody(c, method, net) ==
  /\ ncalls < MaxArtefactCalls
  /\ ncalls' = ncalls + 1
  /\ op' = method
  /\ IF c.net = Unset
     THEN /\ ca' = c
          /\ nets' = nets
          /\ ret' = [net |-> net, translated |-> Unset, raised |-> TRUE]
     ELSE /\ \E nt \in 0..MaxTraces : ca' = [c EXCEPT !.traces = nt]
          /\ nets' = add_wait_net(c)
          /\ ret' = [net |-> net, translated |-> c.net, raised |-> FALSE]
  /\ UNCHANGED <<stack, orig, NB_VARS, seed, usedAux, thr, wcnf>>

\* multiAlignment(net, m0, mf, traces)
multiAlignment ==
  \E net \in Nets :
    ArtefactBody([ca EXCEPT !.net = net], "multiAlignment", net)

\* antiAlignment(net, m0, mf, traces)
antiAlignment ==
  \E net \in Nets :
    ArtefactBody([ca EXCEPT !.net = net], "antiAlignment", net)

\* exactAlignment(net, m0, mf, traces): self.__net is not assigned
exactAlignment ==
  \E net \in Nets : ArtefactBody(ca, "exactAlignment", net)

NextNet == multiAlignment \/ antiAlignment \/ exactAlignment

SpecNet == InitNet /\ [][NextNet]_vars

\* C12: after every artefact call the net that __artefactsInitialisation
\* extended with the wait transition and translated is the net argument of
\* that call: the call did not fail on an unset net and did not use a net
\* left by an earlier call.
C12_EncodesGivenNet ==
  op \in ArtefactMethods => /\ ~ ret.raised
                            /\ ret.translated = ret.net

\* multiAlignment and antiAlignment alone do encode the net they are given
C12_AssigningMethods ==
  op \in {"multiAlignment", "antiAlignment"} =>
    /\ ~ ret.raised
    /\ ret.translated = ret.net
    /\ nets[ret.net] >= 1

\* exactAlignment translated the net of an earlier call, not its argument
C12_LeftOver ==
  /\ op = "exactAlignment"
  /\ ~ ret.raised
  /\ ret.translated # ret.net
  /\ nets[ret.net] = 0
  /\ nets[ret.translated] = 2

\* exactAlignment as the first call failed on the unset net
C12_UnsetNet ==
  /\ op = "exactAlignment"
  /\ ncalls = 1
  /\ ret.raised

====
